---- MODULE Spec2Model ----
(***************************************************************************)
(* Nova multimodal embedding demo: the manifest/job launcher               *)
(* (CodeBuilder/batch_processor.py) and the per-task handler               *)
(* (Lambda/vector_embed_lambda.py).                                        *)
(*                                                                         *)
(* Python strings the code inspects (keys, MIME types, ARNs, ETags) are    *)
(* tuples of one-character strings, so that endswith, startswith, lower,   *)
(* strip and split are computed character by character. Values the code    *)
(* only passes through (account id, role ARN, task id) are TLA+ strings.   *)
(***************************************************************************)
EXTENDS Integers, Sequences, FiniteSets, TLC

VARIABLES
    \* ---- launcher (batch_processor.py) ----
    bucketKeys,     \* keys the input bucket's listing may return
    pc,             \* run -> position of that pipeline run
    listing,        \* run -> what the paginator has yielded so far: the keys in
                    \*        order, the number of pages, whether a page had no Contents
    written,        \* run -> arguments of f.write on the local manifest.csv
    object_count,   \* run -> local object_count
    uploaded,       \* run -> content this run uploaded (None before upload_file)
    manifest_etag,  \* run -> etag returned by create_manifest_file (None before)
    job_result,     \* run -> value create_s3_batch_job returned (None before)
    manifestObj,    \* object held at the manifest key of the input bucket
    jobCalls,       \* create_job calls received by the S3 Control service
    \* ---- handler (vector_embed_lambda.py) ----
    objects,        \* source bucket: key -> [ContentType, Body] of the stored object
    event,          \* invocation -> the event lambda_handler was called with
    hpc,            \* invocation -> position of that lambda_handler call
    idx,            \* invocation -> index of the task the for loop is at
    local,          \* invocation -> local variables of the current loop iteration
    results,        \* invocation -> the results list
    returned,       \* invocation -> the returned response (None before)
    getCalls,       \* get_object calls received by the object store
    modelCalls,     \* invoke_model calls received by the model endpoint
    putCalls,       \* put_vectors calls received by the vector store
    vectorIndex,    \* vector store: <<bucket, index>> -> (key -> record)
    \* ---- both processes ----
    environ         \* os.environ of the process: name -> value, set names only

launcherVars == <<bucketKeys, pc, listing, written, object_count, uploaded,
                  manifest_etag, job_result, manifestObj, jobCalls>>

handlerVars == <<objects, event, hpc, idx, local, results, returned, getCalls,
                 modelCalls, putCalls, vectorIndex>>

vars == <<launcherVars, handlerVars, environ>>

\* Python's None. TLC compares values of one kind only, so None is written as
\* a value of the kind of the slot it stands in: a string, a sequence, a record.
None == "None"
NoneSeq == <<"None">>
NoneRec == [None |-> TRUE]

\* ------------------------------------------------------------------------
\* Bounds of the model
\* ------------------------------------------------------------------------
MaxPages == 2      \* pages one listing yields
MaxKeys == 3       \* object descriptors one listing yields in total
MaxTasks == 2      \* tasks one invocation event carries

\* ------------------------------------------------------------------------
\* The environment of a complete deployment (buildspec.yml for the launcher,
\* the function's configuration for the handler)
\* ------------------------------------------------------------------------
FullEnviron ==
    [ INPUT_BUCKET |-> <<"b","k","t">>,
      S3_REGION |-> "us-east-1",
      BATCH_ROLE_ARN |-> "arn:aws:iam::123456789012:role/S3BatchOpsRole",
      LAMBDA_ARN |-> "arn:aws:lambda:us-east-1:123456789012:function:NovaEmbeddingProcessor",
      VECTOR_BUCKET |-> "test-vector-bucket",
      VECTOR_INDEX |-> "test-index",
      BEDROCK_MODEL_ID |-> "amazon.nova-multimodal-embeddings-v1:0:8192",
      EMBEDDING_DIMENSION |-> <<"2">> ]

\* The environment with one name unset
Without(name) == [n \in DOMAIN FullEnviron \ {name} |-> FullEnviron[n]]

\* os.environ.get(name)
EnvironGet(name) == IF name \in DOMAIN environ THEN environ[name] ELSE None

\* int(s) of a string of decimal digits
RECURSIVE IntOf(_)
IntOf(s) ==
    IF s = <<>> THEN 0
    ELSE 10 * IntOf(SubSeq(s, 1, Len(s) - 1))
         + (CHOOSE d \in 0..9 : <<"0","1","2","3","4","5","6","7","8","9">>[d + 1] = s[Len(s)])

\* ------------------------------------------------------------------------
\* Characters and Python's str helpers
\* ------------------------------------------------------------------------
LowerChars == <<"a","b","c","d","e","f","g","h","i","j","k","l","m",
                "n","o","p","q","r","s","t","u","v","w","x","y","z">>
UpperChars == <<"A","B","C","D","E","F","G","H","I","J","K","L","M",
                "N","O","P","Q","R","S","T","U","V","W","X","Y","Z">>
OtherChars == <<"0","1","2","3","4","5","6","7","8","9",
                "/",".","-","_",",",":","\n","\"","+","=">>
Alphabet == LowerChars \o UpperChars \o OtherChars

\* str.lower() on one character
LowerChar(c) ==
    IF \E i \in 1..Len(UpperChars) : UpperChars[i] = c
    THEN LowerChars[CHOOSE i \in 1..Len(UpperChars) : UpperChars[i] = c]
    ELSE c

\* str.lower()
Lower(s) == [i \in 1..Len(s) |-> LowerChar(s[i])]

\* str.endswith(suffix)
EndsWith(s, suffix) ==
    /\ Len(suffix) <= Len(s)
    /\ SubSeq(s, Len(s) - Len(suffix) + 1, Len(s)) = suffix

\* str.startswith(prefix)
StartsWith(s, prefix) ==
    /\ Len(prefix) <= Len(s)
    /\ SubSeq(s, 1, Len(prefix)) = prefix

RECURSIVE LStrip(_, _)
LStrip(s, ch) ==
    IF s # <<>> /\ Head(s) = ch THEN LStrip(Tail(s), ch) ELSE s

RECURSIVE RStrip(_, _)
RStrip(s, ch) ==
    IF s # <<>> /\ s[Len(s)] = ch THEN RStrip(SubSeq(s, 1, Len(s) - 1), ch) ELSE s

\* Strip that leaves the trailing characters in place
StripLeadingOnly(s, ch) == LStrip(s, ch)

\* str.strip(ch) for a one-character argument
Strip(s, ch) == RStrip(LStrip(s, ch), ch)

RECURSIVE Concat(_)
Concat(ss) == IF ss = <<>> THEN <<>> ELSE Head(ss) \o Concat(Tail(ss))

\* ------------------------------------------------------------------------
\* Configuration and constants of batch_processor.py
\* ------------------------------------------------------------------------
\* Lines 7-10: os.environ[...], read once when the module is loaded
INPUT_BUCKET == environ["INPUT_BUCKET"]
BATCH_ROLE_ARN == environ["BATCH_ROLE_ARN"]
LAMBDA_ARN == environ["LAMBDA_ARN"]
SOURCE_ZIP_KEY == <<"s","o","u","r","c","e",".","z","i","p">>
MANIFEST_KEY ==
    <<"b","a","t","c","h","-","j","o","b","-","m","a","n","i","f","e","s","t","s","/",
      "m","u","l","t","i","m","e","d","i","a","-","m","a","n","i","f","e","s","t",".",
      "c","s","v">>
\* sts get_caller_identity()['Account']
ACCOUNT_ID == "987654321098"

\* Keys of the input bucket
K_IMG == <<"i","m","a","g","e","1",".","j","p","g">>
K_DIR == <<"f","o","l","d","e","r","/">>
K_ZIP == <<"p","k","g","/","S","o","u","r","c","e",".","Z","I","P">>
K_BAK == <<"s","o","u","r","c","e",".","z","i","p",".","b","a","k">>
AllKeys == {K_IMG, K_DIR, K_ZIP, K_BAK, MANIFEST_KEY}

\* ------------------------------------------------------------------------
\* The object store's integrity tag
\* ------------------------------------------------------------------------
Code(c) == CHOOSE i \in 1..Len(Alphabet) : Alphabet[i] = c

\* 31^n modulo 2^15
RECURSIVE PowMod(_)
PowMod(n) ==
    IF n = 0 THEN 1
    ELSE IF n % 2 = 0 THEN (PowMod(n \div 2) * PowMod(n \div 2)) % 32768
    ELSE (31 * PowMod(n - 1)) % 32768

\* A 15-bit polynomial digest of the content, standing for the store's MD5
RECURSIVE Checksum(_)
Checksum(content) ==
    IF content = <<>> THEN 0
    ELSE IF Len(content) = 1 THEN Code(content[1])
    ELSE LET m == Len(content) \div 2
             a == SubSeq(content, 1, m)
             b == SubSeq(content, m + 1, Len(content))
         IN (Checksum(a) * PowMod(Len(b)) + Checksum(b)) % 32768

HexDigits == <<"0","1","2","3","4","5","6","7","8","9","a","b","c","d","e","f">>

Hex4(n) == << HexDigits[((n \div 4096) % 16) + 1], HexDigits[((n \div 256) % 16) + 1],
              HexDigits[((n \div 16) % 16) + 1], HexDigits[(n % 16) + 1] >>

\* head_object(...)['ETag']: the content's digest between double quotes
ETagOf(content) == <<"\"">> \o Hex4(Checksum(content)) \o <<"\"">>

\* ------------------------------------------------------------------------
\* create_manifest_file
\* ------------------------------------------------------------------------
\* A page of the paginator: without the 'Contents' entry, or with up to n keys
Pages(keys, n) ==
    {[hasContents |-> FALSE, Contents |-> <<>>]} \cup
    {[hasContents |-> TRUE, Contents |-> c] :
        c \in UNION {[1..m -> keys] : m \in 0..n}}

\* KeepKey without the lower() of the key: a case-sensitive suffix test
KeepKeyCaseSensitive(key, manifest_key) ==
    /\ ~EndsWith(key, <<"/">>)
    /\ key # manifest_key
    /\ ~EndsWith(key, Lower(SOURCE_ZIP_KEY))

\* The condition of line 32
KeepKey(key, manifest_key) ==
    /\ ~EndsWith(key, <<"/">>)
    /\ key # manifest_key
    /\ ~EndsWith(Lower(key), Lower(SOURCE_ZIP_KEY))

\* f"{bucket_name},{key}\n"
ManifestLine(bucket_name, key) == bucket_name \o <<",">> \o key \o <<"\n">>

\* The inner loop of lines 28-35 over one page's Contents: the lines written
RECURSIVE PageLines(_, _, _)
PageLines(contents, bucket_name, manifest_key) ==
    IF contents = <<>> THEN <<>>
    ELSE (IF KeepKey(Head(contents), manifest_key)
          THEN <<ManifestLine(bucket_name, Head(contents))>>
          ELSE <<>>)
         \o PageLines(Tail(contents), bucket_name, manifest_key)

\* One iteration of `for page in pages` (lines 26-35)
ReadPage(r) ==
    /\ pc[r] = "list"
    /\ listing[r].pages < MaxPages
    /\ \E page \in Pages(bucketKeys, MaxKeys - Len(listing[r].keys)) :
         LET lines == IF page.hasContents
                      THEN PageLines(page.Contents, INPUT_BUCKET, MANIFEST_KEY)
                      ELSE <<>>
         IN /\ listing' = [listing EXCEPT ![r] =
                              [ keys |-> @.keys \o page.Contents,
                                pages |-> @.pages + 1,
                                bare |-> @.bare \/ ~page.hasContents ]]
            /\ written' = [written EXCEPT ![r] = @ \o lines]
            /\ object_count' = [object_count EXCEPT ![r] = @ + Len(lines)]
    /\ UNCHANGED <<bucketKeys, pc, uploaded, manifest_etag, job_result, manifestObj, jobCalls>>

\* The paginator is exhausted: the with-block closes manifest.csv
EndListing(r) ==
    /\ pc[r] = "list"
    /\ pc' = [pc EXCEPT ![r] = "upload"]
    /\ UNCHANGED <<bucketKeys, listing, written, object_count, uploaded, manifest_etag,
                   job_result, manifestObj, jobCalls>>

\* s3_client.upload_file("manifest.csv", bucket_name, manifest_key) (line 38)
UploadManifest(r) ==
    /\ pc[r] = "upload"
    /\ manifestObj' = [content |-> Concat(written[r]), writer |-> r]
    /\ uploaded' = [uploaded EXCEPT ![r] = Concat(written[r])]
    /\ pc' = [pc EXCEPT ![r] = "head"]
    /\ UNCHANGED <<bucketKeys, listing, written, object_count, manifest_etag, job_result,
                   jobCalls>>

\* head_object and the strip of line 43; create_manifest_file returns
HeadManifest(r) ==
    /\ pc[r] = "head"
    /\ manifest_etag' = [manifest_etag EXCEPT ![r] = Strip(ETagOf(manifestObj.content), "\"")]
    /\ pc' = [pc EXCEPT ![r] = "returned"]
    /\ UNCHANGED <<bucketKeys, listing, written, object_count, uploaded, job_result,
                   manifestObj, jobCalls>>

\* A list, upload or head call raises: nothing catches it, the run ends
S3Error(r) ==
    /\ pc[r] \in {"list", "upload", "head"}
    /\ pc' = [pc EXCEPT ![r] = "crashed"]
    /\ UNCHANGED <<bucketKeys, listing, written, object_count, uploaded, manifest_etag,
                   job_result, manifestObj, jobCalls>>

\* ------------------------------------------------------------------------
\* create_s3_batch_job and the main block
\* ------------------------------------------------------------------------
\* str(uuid.uuid4()) values
Uuids == { <<"1","f","0","c","9","a","7","e","-","4","b">>,
           <<"8","d","2","2","6","b","3","5","-","7","c">> }

\* uuid4 never repeats a value
FreshUuids ==
    Uuids \ {jobCalls[n].request.ClientRequestToken : n \in 1..Len(jobCalls)}

\* s[:n]
Prefix(s, n) == SubSeq(s, 1, IF Len(s) < n THEN Len(s) ELSE n)

\* JobRequest whose manifest ARN leaves the bucket out
JobRequestNoBucket(account_id, manifest_key, manifest_etag_for_request, job_id) ==
    [ AccountId |-> account_id,
      ConfirmationRequired |-> FALSE,
      ClientRequestToken |-> job_id,
      Operation |-> [LambdaInvoke |-> [FunctionArn |-> LAMBDA_ARN]],
      Report |-> [ Bucket |-> <<"a","r","n",":","a","w","s",":","s","3",":",":",":">>
                              \o INPUT_BUCKET,
                   Prefix |-> "batch-job-reports/",
                   Format |-> "Report_CSV_20180820",
                   Enabled |-> TRUE,
                   ReportScope |-> "AllTasks",
                   ExpectedBucketOwner |-> account_id ],
      Manifest |-> [ Spec |-> [ Format |-> "S3BatchOperations_CSV_20161005",
                                Fields |-> <<"Bucket", "Key">> ],
                     Location |-> [ ObjectArn |->
                                      <<"a","r","n",":","a","w","s",":","s","3",":",":",":">>
                                      \o manifest_key,
                                    ETag |-> manifest_etag_for_request ] ],
      Priority |-> 10,
      RoleArn |-> BATCH_ROLE_ARN,
      Description |-> <<"N","o","v","a","-","E","m","b","e","d","d","i","n","g","s","-",
                        "B","a","t","c","h","-","J","o","b","-">> \o Prefix(job_id, 8) ]

\* The job_request of lines 57-89
JobRequest(account_id, manifest_key, manifest_etag_for_request, job_id) ==
    [ AccountId |-> account_id,
      ConfirmationRequired |-> FALSE,
      ClientRequestToken |-> job_id,
      Operation |-> [LambdaInvoke |-> [FunctionArn |-> LAMBDA_ARN]],
      Report |-> [ Bucket |-> <<"a","r","n",":","a","w","s",":","s","3",":",":",":">>
                              \o INPUT_BUCKET,
                   Prefix |-> "batch-job-reports/",
                   Format |-> "Report_CSV_20180820",
                   Enabled |-> TRUE,
                   ReportScope |-> "AllTasks",
                   ExpectedBucketOwner |-> account_id ],
      Manifest |-> [ Spec |-> [ Format |-> "S3BatchOperations_CSV_20161005",
                                Fields |-> <<"Bucket", "Key">> ],
                     Location |-> [ ObjectArn |->
                                      <<"a","r","n",":","a","w","s",":","s","3",":",":",":">>
                                      \o INPUT_BUCKET \o <<"/">> \o manifest_key,
                                    ETag |-> manifest_etag_for_request ] ],
      Priority |-> 10,
      RoleArn |-> BATCH_ROLE_ARN,
      Description |-> <<"N","o","v","a","-","E","m","b","e","d","d","i","n","g","s","-",
                        "B","a","t","c","h","-","J","o","b","-">> \o Prefix(job_id, 8) ]

\* What create_job answers: a response, with or without 'JobId', or an exception
JobResponses == { [JobId |-> "job-0001", JobArn |-> "arn:job-0001"],
                  [JobArn |-> "arn:job-0002"] }
JobErrors == { "ClientError: InvalidManifest" }

\* dict.get(key)
Get(d, key) == IF key \in DOMAIN d THEN d[key] ELSE None

\* ShouldSubmit that lets an empty manifest through
ShouldSubmitAlways(count) == count >= 0

\* The condition of line 119
ShouldSubmit(count) == count > 0

\* The create_job call as the service sees it, with the manifest object the
\* store holds at that moment
JobCall(r, request, outcome) ==
    [ run |-> r, request |-> request, outcome |-> outcome,
      storeETag |-> ETagOf(manifestObj.content),
      storeWriter |-> manifestObj.writer,
      storeContent |-> manifestObj.content ]

\* Python values whose type a comparison looks at: an int, a tuple
PyInt(n) == [type |-> "int", value |-> n]
PyTuple(items) == [type |-> "tuple", value |-> items]

\* Python's ==: an int and a tuple are never equal
PyEq(a, b) == a.type = b.type /\ a.value = b.value

\* Line 46: the value create_manifest_file hands to its caller
ReturnValue(r) == PyTuple(<<object_count[r], manifest_etag[r]>>)

\* Lines 7-10: the module is loaded; os.environ[name] raises KeyError for an
\* unset name and the process ends before line 105
LauncherNames == {"INPUT_BUCKET", "S3_REGION", "BATCH_ROLE_ARN", "LAMBDA_ARN"}

LoadLauncher(r) ==
    /\ pc[r] = "import"
    /\ pc' = [pc EXCEPT ![r] = IF LauncherNames \subseteq DOMAIN environ
                               THEN "list" ELSE "config_error"]
    /\ UNCHANGED <<bucketKeys, listing, written, object_count, uploaded, manifest_etag,
                   job_result, manifestObj, jobCalls>>

\* Line 120 with create_s3_batch_job (lines 48-102), the service accepting
CreateJob(r) ==
    /\ pc[r] = "returned"
    /\ ShouldSubmit(object_count[r])
    /\ \E job_id \in FreshUuids, response \in JobResponses :
         /\ jobCalls' = Append(jobCalls,
                JobCall(r, JobRequest(ACCOUNT_ID, MANIFEST_KEY, manifest_etag[r], job_id),
                        response))
         /\ job_result' = [job_result EXCEPT ![r] = Get(response, "JobId")]
    /\ pc' = [pc EXCEPT ![r] = "done"]
    /\ UNCHANGED <<bucketKeys, listing, written, object_count, uploaded, manifest_etag,
                   manifestObj>>

\* Line 120 with create_s3_batch_job, the service rejecting: lines 96-99 re-raise
CreateJobRejected(r) ==
    /\ pc[r] = "returned"
    /\ ShouldSubmit(object_count[r])
    /\ \E job_id \in FreshUuids, e \in JobErrors :
         jobCalls' = Append(jobCalls,
                JobCall(r, JobRequest(ACCOUNT_ID, MANIFEST_KEY, manifest_etag[r], job_id),
                        [error |-> e]))
    /\ pc' = [pc EXCEPT ![r] = "raised"]
    /\ UNCHANGED <<bucketKeys, listing, written, object_count, uploaded, manifest_etag,
                   job_result, manifestObj>>

\* The else branch of lines 122-123
SkipJob(r) ==
    /\ pc[r] = "returned"
    /\ ~ShouldSubmit(object_count[r])
    /\ pc' = [pc EXCEPT ![r] = "skipped"]
    /\ UNCHANGED <<bucketKeys, listing, written, object_count, uploaded, manifest_etag,
                   job_result, manifestObj, jobCalls>>

\* ------------------------------------------------------------------------
\* Configuration of vector_embed_lambda.py
\* ------------------------------------------------------------------------
\* Lines 8-12: os.environ.get(...) is None for an unset name; read once when
\* the module is loaded
VECTOR_BUCKET == EnvironGet("VECTOR_BUCKET")
VECTOR_INDEX == EnvironGet("VECTOR_INDEX")
BEDROCK_MODEL_ID == EnvironGet("BEDROCK_MODEL_ID")
EMBEDDING_DIMENSION == IntOf(environ["EMBEDDING_DIMENSION"])

\* ------------------------------------------------------------------------
\* Library functions the handler calls
\* ------------------------------------------------------------------------
\* The index of the first occurrence of sep in s, 0 when there is none
RECURSIVE FindFrom(_, _, _)
FindFrom(s, sep, i) ==
    IF i + Len(sep) - 1 > Len(s) THEN 0
    ELSE IF SubSeq(s, i, i + Len(sep) - 1) = sep THEN i
    ELSE FindFrom(s, sep, i + 1)

\* str.split(sep): left to right, occurrences never overlap
RECURSIVE Split(_, _)
Split(s, sep) ==
    LET i == FindFrom(s, sep, 1)
    IN IF i = 0 THEN <<s>>
       ELSE <<SubSeq(s, 1, i - 1)>> \o Split(SubSeq(s, i + Len(sep), Len(s)), sep)

\* seq[-1]
Last(seq) == seq[Len(seq)]

\* mimetypes.guess_type(url)[0] for the suffixes the model's keys carry
TypesMap ==
    << << <<".","t","x","t">>, <<"t","e","x","t","/","p","l","a","i","n">> >>,
       << <<".","j","p","g">>, <<"i","m","a","g","e","/","j","p","e","g">> >>,
       << <<".","p","n","g">>, <<"i","m","a","g","e","/","p","n","g">> >>,
       << <<".","m","p","3">>, <<"a","u","d","i","o","/","m","p","e","g">> >>,
       << <<".","m","p","4">>, <<"v","i","d","e","o","/","m","p","4">> >>,
       << <<".","p","d","f">>, <<"a","p","p","l","i","c","a","t","i","o","n","/","p","d","f">> >>,
       << <<".","z","i","p">>, <<"a","p","p","l","i","c","a","t","i","o","n","/","z","i","p">> >> >>

GuessType(url) ==
    IF \E n \in 1..Len(TypesMap) : EndsWith(Lower(url), TypesMap[n][1])
    THEN TypesMap[CHOOSE n \in 1..Len(TypesMap) : EndsWith(Lower(url), TypesMap[n][1])][2]
    ELSE NoneSeq

Digits == <<"0","1","2","3","4","5","6","7","8","9">>
B64Chars == UpperChars \o LowerChars \o Digits \o <<"+","/">>

\* base64.b64encode(bytes).decode('utf-8')
RECURSIVE B64Encode(_)
B64Encode(bytes) ==
    IF bytes = <<>> THEN <<>>
    ELSE LET n  == Len(bytes)
             b1 == bytes[1]
             b2 == IF n >= 2 THEN bytes[2] ELSE 0
             b3 == IF n >= 3 THEN bytes[3] ELSE 0
             v  == b1 * 65536 + b2 * 256 + b3
         IN << B64Chars[(v \div 262144) + 1],
               B64Chars[((v \div 4096) % 64) + 1],
               IF n >= 2 THEN B64Chars[((v \div 64) % 64) + 1] ELSE "=",
               IF n >= 3 THEN B64Chars[(v % 64) + 1] ELSE "=" >>
            \o (IF n > 3 THEN B64Encode(SubSeq(bytes, 4, n)) ELSE <<>>)

\* chr(b) for the byte values of the model's text bodies
AsciiChar(b) ==
    IF b >= 97 /\ b <= 122 THEN LowerChars[b - 96]
    ELSE IF b >= 65 /\ b <= 90 THEN UpperChars[b - 64]
    ELSE IF b >= 48 /\ b <= 57 THEN Digits[b - 47]
    ELSE "_"

\* bytes.decode('utf-8') succeeds. The model's bodies hold ASCII bytes and the
\* byte 0xFF, which no UTF-8 sequence contains.
Utf8Valid(bytes) == \A n \in 1..Len(bytes) : bytes[n] < 128

Utf8Decode(bytes) == [n \in 1..Len(bytes) |-> AsciiChar(bytes[n])]

\* ------------------------------------------------------------------------
\* lambda_handler: the steps between get_object and invoke_model
\* ------------------------------------------------------------------------
BINARY_OCTET == <<"b","i","n","a","r","y","/","o","c","t","e","t","-","s","t","r","e","a","m">>
APPLICATION_OCTET ==
    <<"a","p","p","l","i","c","a","t","i","o","n","/","o","c","t","e","t","-","s","t","r","e","a","m">>
APPLICATION_PDF == <<"a","p","p","l","i","c","a","t","i","o","n","/","p","d","f">>

\* Lines 33-38: the content_type the handler goes on with
EffectiveType(s3_content_type, s3_uri) ==
    IF \/ s3_content_type = NoneSeq
       \/ s3_content_type = <<>>
       \/ s3_content_type = BINARY_OCTET
       \/ s3_content_type = APPLICATION_OCTET
    THEN GuessType(s3_uri)
    ELSE s3_content_type

\* MediaType that takes every application/ type for a document
MediaTypeAnyApplication(content_type) ==
    IF StartsWith(content_type, <<"i","m","a","g","e","/">>) THEN "image"
    ELSE IF StartsWith(content_type, <<"a","u","d","i","o","/">>) THEN "audio"
    ELSE IF StartsWith(content_type, <<"v","i","d","e","o","/">>) THEN "video"
    ELSE IF StartsWith(content_type, <<"a","p","p","l","i","c","a","t","i","o","n","/">>)
         THEN "document"
    ELSE IF StartsWith(content_type, <<"t","e","x","t","/">>) THEN "text"
    ELSE None

\* Lines 49-60: bedrock_media_type, None where line 60 raises
MediaType(content_type) ==
    IF StartsWith(content_type, <<"i","m","a","g","e","/">>) THEN "image"
    ELSE IF StartsWith(content_type, <<"a","u","d","i","o","/">>) THEN "audio"
    ELSE IF StartsWith(content_type, <<"v","i","d","e","o","/">>) THEN "video"
    ELSE IF content_type = APPLICATION_PDF THEN "document"
    ELSE IF StartsWith(content_type, <<"t","e","x","t","/">>) THEN "text"
    ELSE None

\* Lines 64-70: content_encoding
ContentEncoding(bedrock_media_type) ==
    IF bedrock_media_type \in {"image", "video", "audio", "document"} THEN "base64"
    ELSE IF bedrock_media_type = "text" THEN "utf8"
    ELSE None

\* Lines 64-70: content_data
ContentData(bedrock_media_type, file_content) ==
    IF bedrock_media_type \in {"image", "video", "audio", "document"}
    THEN B64Encode(file_content)
    ELSE IF bedrock_media_type = "text" THEN Utf8Decode(file_content)
    ELSE NoneSeq

\* Lines 73-84
RequestBody(bedrock_media_type, file_content) ==
    [ input |-> [ mediaType |-> bedrock_media_type,
                  encoding |-> ContentEncoding(bedrock_media_type),
                  data |-> ContentData(bedrock_media_type, file_content) ],
      config |-> [ embeddingPurpose |-> "GENERIC_INDEX" ] ]

\* Lines 33-84 as a whole: the request body, or the message of the exception
Prepare(s3_content_type, s3_uri, file_content) ==
    LET content_type == EffectiveType(s3_content_type, s3_uri)
    IN IF content_type = NoneSeq
       THEN [ok |-> FALSE, error |-> <<"Could not determine data type for ", s3_uri>>]
       ELSE IF MediaType(content_type) = None
       THEN [ok |-> FALSE, error |-> <<"Unsupported MIME type: ", content_type>>]
       ELSE IF MediaType(content_type) = "text" /\ ~Utf8Valid(file_content)
       THEN [ok |-> FALSE, error |-> <<"'utf-8' codec can't decode byte">>]
       ELSE [ok |-> TRUE, content_type |-> content_type,
             request_body |-> RequestBody(MediaType(content_type), file_content)]

\* VectorToStore that keys the record by bucket and key
VectorToStoreBucketKey(s3_uri, embedding, bucket_name, content_type) ==
    [ key |-> bucket_name \o <<"/">> \o s3_uri,
      data |-> [float32 |-> embedding],
      metadata |-> [source_bucket |-> bucket_name, mime_type |-> content_type] ]

\* Lines 100-107
VectorToStore(s3_uri, embedding, bucket_name, content_type) ==
    [ key |-> s3_uri,
      data |-> [float32 |-> embedding],
      metadata |-> [source_bucket |-> bucket_name, mime_type |-> content_type] ]

\* Lines 116-120
SuccessResult(task_id, s3_uri, content_type) ==
    [ taskId |-> task_id,
      resultCode |-> "Succeeded",
      resultString |-> <<"Successfully embedded ", s3_uri, content_type,
                         EMBEDDING_DIMENSION, " dimensions">> ]

\* Lines 125-129
FailureResult(task_id, e) ==
    [ taskId |-> task_id, resultCode |-> "PermanentFailure", resultString |-> e ]

\* Lines 131-135
Response(res) ==
    [ invocationSchemaVersion |-> "1.0", treatMissingKeysAs |-> "Succeeded",
      results |-> res ]

\* ------------------------------------------------------------------------
\* lambda_handler: one action per step of the loop body
\* ------------------------------------------------------------------------
NoLocal ==
    [ task_id |-> NoneSeq, s3_uri |-> NoneSeq, bucket_name |-> NoneSeq,
      file_content |-> NoneSeq, s3_content_type |-> NoneSeq, content_type |-> NoneSeq,
      request_body |-> NoneRec, embedding |-> NoneSeq ]

TaskFields == {"taskId", "s3Key", "s3BucketArn"}

CurrentTask(i) == event[i].tasks[idx[i]]

\* Lines 122-129: the except clause appends a failure, the loop goes on
FailTask(i, e) ==
    /\ results' = [results EXCEPT ![i] = Append(@, FailureResult(local[i].task_id, e))]
    /\ idx' = [idx EXCEPT ![i] = @ + 1]
    /\ local' = [local EXCEPT ![i] = NoLocal]
    /\ hpc' = [hpc EXCEPT ![i] = "task"]

\* Lines 8-12: the module is loaded. os.environ['S3_REGION'] raises KeyError
\* and int(None) raises TypeError for an unset name; the three names read with
\* os.environ.get alone load as None
HandlerFatalNames == {"S3_REGION", "EMBEDDING_DIMENSION"}

LoadHandler(i) ==
    /\ hpc[i] = "import"
    /\ hpc' = [hpc EXCEPT ![i] = IF HandlerFatalNames \subseteq DOMAIN environ
                                 THEN "task" ELSE "config_error"]
    /\ UNCHANGED <<objects, event, idx, local, results, returned, getCalls, modelCalls,
                   putCalls, vectorIndex>>

\* Lines 22-25: the next task's fields are read
Receive(i) ==
    /\ hpc[i] = "task"
    /\ idx[i] <= Len(event[i].tasks)
    /\ TaskFields \subseteq DOMAIN CurrentTask(i)
    /\ local' = [local EXCEPT ![i] =
                    [NoLocal EXCEPT !.task_id = CurrentTask(i).taskId,
                                    !.s3_uri = CurrentTask(i).s3Key,
                                    !.bucket_name =
                                        Last(Split(CurrentTask(i).s3BucketArn,
                                                   <<":",":",":">>))]]
    /\ hpc' = [hpc EXCEPT ![i] = "download"]
    /\ UNCHANGED <<objects, event, idx, results, returned, getCalls, modelCalls, putCalls,
                   vectorIndex>>

\* Lines 23-25 stand before the try: a missing field raises KeyError out of
\* lambda_handler, which returns nothing
ReceiveRaises(i) ==
    /\ hpc[i] = "task"
    /\ idx[i] <= Len(event[i].tasks)
    /\ ~(TaskFields \subseteq DOMAIN CurrentTask(i))
    /\ hpc' = [hpc EXCEPT ![i] = "raised"]
    /\ UNCHANGED <<objects, event, idx, local, results, returned, getCalls, modelCalls,
                   putCalls, vectorIndex>>

\* The source bucket the objects of the model live in
SOURCE_BUCKET == <<"s","r","c">>

HasObject(bucket_name, key) == bucket_name = SOURCE_BUCKET /\ key \in DOMAIN objects

GetCall(i) == [inv |-> i, task |-> idx[i], Bucket |-> local[i].bucket_name,
               Key |-> local[i].s3_uri]

\* Lines 29-33: get_object answers
Download(i) ==
    /\ hpc[i] = "download"
    /\ HasObject(local[i].bucket_name, local[i].s3_uri)
    /\ getCalls' = Append(getCalls, [call |-> GetCall(i), answer |-> "ok"])
    /\ local' = [local EXCEPT ![i].file_content = objects[local[i].s3_uri].Body,
                              ![i].s3_content_type = objects[local[i].s3_uri].ContentType]
    /\ hpc' = [hpc EXCEPT ![i] = "prepare"]
    /\ UNCHANGED <<objects, event, idx, results, returned, modelCalls, putCalls, vectorIndex>>

\* Line 29: get_object raises
DownloadFails(i) ==
    /\ hpc[i] = "download"
    /\ getCalls' = Append(getCalls, [call |-> GetCall(i), answer |-> "error"])
    /\ FailTask(i, IF HasObject(local[i].bucket_name, local[i].s3_uri)
                   THEN <<"An error occurred (AccessDenied) when calling GetObject">>
                   ELSE <<"An error occurred (NoSuchKey) when calling GetObject">>)
    /\ UNCHANGED <<objects, event, returned, modelCalls, putCalls, vectorIndex>>

\* Lines 33-84: classification, encoding and the request body
PrepareRequest(i) ==
    /\ hpc[i] = "prepare"
    /\ LET p == Prepare(local[i].s3_content_type, local[i].s3_uri, local[i].file_content)
       IN IF p.ok
          THEN /\ local' = [local EXCEPT ![i].content_type = p.content_type,
                                         ![i].request_body = p.request_body]
               /\ hpc' = [hpc EXCEPT ![i] = "embed"]
               /\ UNCHANGED <<idx, results>>
          ELSE FailTask(i, p.error)
    /\ UNCHANGED <<objects, event, returned, getCalls, modelCalls, putCalls, vectorIndex>>

\* Embedding vectors the model may answer with
Embeddings == { <<11, 12>>, <<21, 22>>, <<31>> }

ModelCall(i) == [inv |-> i, task |-> idx[i], modelId |-> BEDROCK_MODEL_ID,
                 body |-> local[i].request_body,
                 contentType |-> "application/json", accept |-> "application/json"]

\* Lines 87-97: invoke_model answers with embeddings[0].embedding
Embed(i) ==
    /\ hpc[i] = "embed"
    /\ BEDROCK_MODEL_ID # None
    /\ \E e \in Embeddings :
         LET response_body == [embeddings |-> <<[embedding |-> e]>>]
         IN /\ modelCalls' = Append(modelCalls, [call |-> ModelCall(i), answer |-> "ok",
                                                 body |-> response_body])
            /\ local' = [local EXCEPT ![i].embedding = response_body.embeddings[1].embedding]
    /\ hpc' = [hpc EXCEPT ![i] = "store"]
    /\ UNCHANGED <<objects, event, idx, results, returned, getCalls, putCalls, vectorIndex>>

\* The exceptions of lines 87-97: the client refuses modelId=None before it
\* sends anything; otherwise the service raises or its body holds no embeddings
EmbedErrors ==
    IF BEDROCK_MODEL_ID = None
    THEN { <<"Parameter validation failed: Invalid type for parameter modelId">> }
    ELSE { <<"An error occurred (ThrottlingException) when calling InvokeModel">>,
           <<"'embeddings'">> }

\* Lines 87-97: invoke_model raises, or its body holds no embeddings
EmbedFails(i) ==
    /\ hpc[i] = "embed"
    /\ \E e \in EmbedErrors :
         /\ modelCalls' = Append(modelCalls, [call |-> ModelCall(i), answer |-> "error",
                                              body |-> e])
         /\ FailTask(i, e)
    /\ UNCHANGED <<objects, event, returned, getCalls, putCalls, vectorIndex>>

\* PutCall whose vector key differs from one invocation to the next
PutCallKeyPerInvocation(i) ==
    [inv |-> i, task |-> idx[i],
     vectorBucketName |-> VECTOR_BUCKET,
     indexName |-> VECTOR_INDEX,
     vectors |-> <<VectorToStore(<<i>> \o local[i].s3_uri, local[i].embedding,
                                  local[i].bucket_name, local[i].content_type)>>]

\* Lines 109-113: the arguments of put_vectors
PutCall(i) == [inv |-> i, task |-> idx[i],
               vectorBucketName |-> VECTOR_BUCKET,
               indexName |-> VECTOR_INDEX,
               vectors |-> <<VectorToStore(local[i].s3_uri, local[i].embedding,
                                            local[i].bucket_name, local[i].content_type)>>]

\* The vector store's put_vectors: each vector replaces the record of its key
RECURSIVE Upsert(_, _, _, _)
Upsert(ix, bucket, index, vectors) ==
    IF vectors = <<>> THEN ix
    ELSE LET v == Head(vectors)
             k == <<bucket, index, v.key>>
         IN Upsert([x \in DOMAIN ix \cup {k} |->
                        IF x = k THEN [data |-> v.data, metadata |-> v.metadata]
                        ELSE ix[x]],
                   bucket, index, Tail(vectors))

\* Lines 100-120: put_vectors answers, the task succeeded
Store(i) ==
    /\ hpc[i] = "store"
    /\ VECTOR_BUCKET # None
    /\ VECTOR_INDEX # None
    /\ putCalls' = Append(putCalls, [call |-> PutCall(i), answer |-> "ok"])
    /\ vectorIndex' = Upsert(vectorIndex, PutCall(i).vectorBucketName, PutCall(i).indexName,
                             PutCall(i).vectors)
    /\ results' = [results EXCEPT ![i] =
                      Append(@, SuccessResult(local[i].task_id, local[i].s3_uri,
                                              local[i].content_type))]
    /\ idx' = [idx EXCEPT ![i] = @ + 1]
    /\ local' = [local EXCEPT ![i] = NoLocal]
    /\ hpc' = [hpc EXCEPT ![i] = "task"]
    /\ UNCHANGED <<objects, event, returned, getCalls, modelCalls>>

\* StoreFails that calls put_vectors again instead of giving the task up
StoreFailsRetry(i) ==
    /\ hpc[i] = "store"
    /\ putCalls' = Append(putCalls, [call |-> PutCall(i), answer |-> "error"])
    /\ UNCHANGED <<objects, event, hpc, idx, local, results, returned, getCalls,
                   modelCalls, vectorIndex>>

\* Lines 109-113: put_vectors raises; the client refuses a None bucket or index
\* name before it sends anything
StoreFails(i) ==
    /\ hpc[i] = "store"
    /\ putCalls' = Append(putCalls, [call |-> PutCall(i), answer |-> "error"])
    /\ FailTask(i, IF VECTOR_BUCKET = None \/ VECTOR_INDEX = None
                   THEN <<"Parameter validation failed: Invalid type for parameter">>
                   ELSE <<"An error occurred (ServiceUnavailableException) when calling PutVectors">>)
    /\ UNCHANGED <<objects, event, returned, getCalls, modelCalls, vectorIndex>>

\* Lines 131-135: the loop is over
Return(i) ==
    /\ hpc[i] = "task"
    /\ idx[i] > Len(event[i].tasks)
    /\ returned' = [returned EXCEPT ![i] = Response(results[i])]
    /\ hpc' = [hpc EXCEPT ![i] = "returned"]
    /\ UNCHANGED <<objects, event, idx, local, results, getCalls, modelCalls, putCalls,
                   vectorIndex>>

\* ------------------------------------------------------------------------
\* Events and bucket contents of the handler's runs
\* ------------------------------------------------------------------------
H_TXT == <<"n","o","t","e","s",".","t","x","t">>
H_JPG == <<"p","h","o","t","o",".","J","P","G">>
H_BLOB == <<"b","l","o","b">>
HKeys == {H_TXT, H_JPG, H_BLOB}

ARN_SRC == <<"a","r","n",":","a","w","s",":","s","3",":",":",":","s","r","c">>
ARN_ODD == <<"a","r","n",":","a","w","s",":","s","3",":",":",":",":","s","r","c">>

ContentTypes ==
    { NoneSeq, BINARY_OCTET, APPLICATION_OCTET, APPLICATION_PDF,
      <<"i","m","a","g","e","/","p","n","g">>,
      <<"a","u","d","i","o","/","m","p","e","g">>,
      <<"v","i","d","e","o","/","m","p","4">>,
      <<"t","e","x","t","/","p","l","a","i","n">>,
      <<"a","p","p","l","i","c","a","t","i","o","n","/","u","n","k","n","o","w","n","-",
        "t","y","p","e">> }

Bodies == { <<72, 105>>, <<255, 216, 255, 224>> }

TaskId(n) == <<"task-", n>>

Task(n, key, arn) == [taskId |-> TaskId(n), s3Key |-> key, s3BucketArn |-> arn]

\* The n-th task of an event: well formed, or with one field missing
TasksAt(n, keys, arns) ==
    {Task(n, k, a) : k \in keys, a \in arns} \cup
    { [s3Key |-> H_TXT, s3BucketArn |-> ARN_SRC],
      [taskId |-> TaskId(n), s3BucketArn |-> ARN_SRC],
      [taskId |-> TaskId(n), s3Key |-> H_TXT] }

Event(tasks) == [invocationId |-> "test-invocation-id", tasks |-> tasks]

\* The bucket the batches and the redelivered task run against
FixedObjects ==
    [k \in {H_TXT, H_BLOB} |->
        IF k = H_TXT
        THEN [ContentType |-> <<"t","e","x","t","/","p","l","a","i","n">>, Body |-> <<72, 105>>]
        ELSE [ContentType |-> NoneSeq, Body |-> <<255, 216, 255, 224>>]]

InitHandler(invs) ==
    /\ hpc = [i \in invs |-> "task"]
    /\ idx = [i \in invs |-> 1]
    /\ local = [i \in invs |-> NoLocal]
    /\ results = [i \in invs |-> <<>>]
    /\ returned = [i \in invs |-> NoneRec]
    /\ getCalls = <<>>
    /\ modelCalls = <<>>
    /\ putCalls = <<>>
    /\ vectorIndex = <<>>

\* One invocation with one well-formed task, over every stored object
InitSingle ==
    /\ InitHandler({1})
    /\ \E k \in HKeys, a \in {ARN_SRC, ARN_ODD} :
         /\ event = [i \in {1} |-> Event(<<Task(1, k, a)>>)]
         /\ \/ objects = <<>>
            \/ \E ct \in ContentTypes, b \in Bodies :
                 objects = [x \in {k} |-> [ContentType |-> ct, Body |-> b]]

\* One invocation with a batch of up to MaxTasks tasks
InitBatch ==
    /\ InitHandler({1})
    /\ objects = FixedObjects
    /\ \E n \in 0..MaxTasks :
         \E tasks \in [1..n -> UNION {TasksAt(m, {H_TXT, H_BLOB}, {ARN_SRC}) : m \in 1..n}] :
            /\ \A m \in 1..n : tasks[m] \in TasksAt(m, {H_TXT, H_BLOB}, {ARN_SRC})
            /\ event = [i \in {1} |-> Event(tasks)]

\* The same task delivered to two invocations
InitRedelivery ==
    /\ InitHandler({1, 2})
    /\ objects = FixedObjects
    /\ event = [i \in {1, 2} |-> Event(<<Task(1, H_TXT, ARN_SRC)>>)]

Invs == DOMAIN hpc

Runs == DOMAIN pc

InitLauncher(runs, keys) ==
    /\ bucketKeys = keys
    /\ pc = [r \in runs |-> "list"]
    /\ listing = [r \in runs |-> [keys |-> <<>>, pages |-> 0, bare |-> FALSE]]
    /\ written = [r \in runs |-> <<>>]
    /\ object_count = [r \in runs |-> 0]
    /\ uploaded = [r \in runs |-> NoneSeq]
    /\ manifest_etag = [r \in runs |-> NoneSeq]
    /\ job_result = [r \in runs |-> None]
    /\ manifestObj = NoneRec
    /\ jobCalls = <<>>

\* No handler invocation takes part in the launcher's runs
NoHandler ==
    /\ InitHandler({})
    /\ objects = <<>>
    /\ event = <<>>

\* No pipeline run takes part in the handler's runs
NoLauncher == InitLauncher({}, {})

\* ------------------------------------------------------------------------
\* Specifications
\* ------------------------------------------------------------------------
\* One pipeline run over a bucket holding every kind of key
InitManifest == environ = FullEnviron /\ InitLauncher({1}, AllKeys) /\ NoHandler

NextManifest ==
    \/ \E r \in Runs : ReadPage(r) /\ UNCHANGED <<handlerVars, environ>>
    \/ \E r \in Runs : EndListing(r) /\ UNCHANGED <<handlerVars, environ>>
    \/ \E r \in Runs : UploadManifest(r) /\ UNCHANGED <<handlerVars, environ>>
    \/ \E r \in Runs : HeadManifest(r) /\ UNCHANGED <<handlerVars, environ>>
    \/ \E r \in Runs : S3Error(r) /\ UNCHANGED <<handlerVars, environ>>
    \/ \E r \in Runs : CreateJob(r) /\ UNCHANGED <<handlerVars, environ>>
    \/ \E r \in Runs : CreateJobRejected(r) /\ UNCHANGED <<handlerVars, environ>>
    \/ \E r \in Runs : SkipJob(r) /\ UNCHANGED <<handlerVars, environ>>

SpecManifest == InitManifest /\ [][NextManifest]_vars

\* Two pipeline runs (two build triggers) over the same bucket and manifest key
InitRace == environ = FullEnviron /\ InitLauncher({1, 2}, {K_IMG}) /\ NoHandler

SpecRace == InitRace /\ [][NextManifest]_vars

\* The handler: a single task over every stored object, a batch, a redelivery
InitLambda ==
    environ = FullEnviron /\ (InitSingle \/ InitBatch \/ InitRedelivery) /\ NoLauncher

NextLambda ==
    \/ \E i \in Invs : Receive(i) /\ UNCHANGED <<launcherVars, environ>>
    \/ \E i \in Invs : ReceiveRaises(i) /\ UNCHANGED <<launcherVars, environ>>
    \/ \E i \in Invs : Download(i) /\ UNCHANGED <<launcherVars, environ>>
    \/ \E i \in Invs : DownloadFails(i) /\ UNCHANGED <<launcherVars, environ>>
    \/ \E i \in Invs : PrepareRequest(i) /\ UNCHANGED <<launcherVars, environ>>
    \/ \E i \in Invs : Embed(i) /\ UNCHANGED <<launcherVars, environ>>
    \/ \E i \in Invs : EmbedFails(i) /\ UNCHANGED <<launcherVars, environ>>
    \/ \E i \in Invs : Store(i) /\ UNCHANGED <<launcherVars, environ>>
    \/ \E i \in Invs : StoreFails(i) /\ UNCHANGED <<launcherVars, environ>>
    \/ \E i \in Invs : Return(i) /\ UNCHANGED <<launcherVars, environ>>

SpecLambda == InitLambda /\ [][NextLambda]_vars

\* Either process started from its module load, in a complete environment or
\* in one where a single name the process reads is unset
HandlerNames == {"S3_REGION", "VECTOR_BUCKET", "VECTOR_INDEX", "BEDROCK_MODEL_ID",
                 "EMBEDDING_DIMENSION"}

InitConfigLauncher ==
    /\ environ \in {FullEnviron} \cup {Without(n) : n \in LauncherNames}
    /\ bucketKeys = {K_IMG, K_DIR}
    /\ pc = [r \in {1} |-> "import"]
    /\ listing = [r \in {1} |-> [keys |-> <<>>, pages |-> 0, bare |-> FALSE]]
    /\ written = [r \in {1} |-> <<>>]
    /\ object_count = [r \in {1} |-> 0]
    /\ uploaded = [r \in {1} |-> NoneSeq]
    /\ manifest_etag = [r \in {1} |-> NoneSeq]
    /\ job_result = [r \in {1} |-> None]
    /\ manifestObj = NoneRec
    /\ jobCalls = <<>>
    /\ NoHandler

InitConfigHandler ==
    /\ environ \in {FullEnviron} \cup {Without(n) : n \in HandlerNames}
    /\ hpc = [i \in {1} |-> "import"]
    /\ idx = [i \in {1} |-> 1]
    /\ local = [i \in {1} |-> NoLocal]
    /\ results = [i \in {1} |-> <<>>]
    /\ returned = [i \in {1} |-> NoneRec]
    /\ getCalls = <<>>
    /\ modelCalls = <<>>
    /\ putCalls = <<>>
    /\ vectorIndex = <<>>
    /\ objects = FixedObjects
    /\ \E t \in TasksAt(1, {H_TXT}, {ARN_SRC}) : event = [i \in {1} |-> Event(<<t>>)]
    /\ NoLauncher

InitConfig == InitConfigLauncher \/ InitConfigHandler

NextConfig ==
    \/ \E r \in Runs : LoadLauncher(r) /\ UNCHANGED <<handlerVars, environ>>
    \/ \E i \in Invs : LoadHandler(i) /\ UNCHANGED <<launcherVars, environ>>
    \/ NextManifest
    \/ NextLambda

SpecConfig == InitConfig /\ [][NextConfig]_vars

\* ------------------------------------------------------------------------
\* Properties of the launcher
\* ------------------------------------------------------------------------
\* The keys of every page run r has read, in the listing's order
ListedKeys(r) == listing[r].keys

\* A key that is no folder marker, not the manifest's key and no source.zip
Eligible(key) ==
    /\ key = <<>> \/ key[Len(key)] # "/"
    /\ key # MANIFEST_KEY
    /\ ~( /\ Len(key) >= Len(SOURCE_ZIP_KEY)
          /\ Lower(SubSeq(key, Len(key) - Len(SOURCE_ZIP_KEY) + 1, Len(key)))
                = SOURCE_ZIP_KEY )

EligibleKeys(r) == SelectSeq(ListedKeys(r), Eligible)

Finished(r) == pc[r] \in {"returned", "done", "skipped", "raised"}

\* C1: at every point of a listing, the lines written to manifest.csv are
\* 'INPUT_BUCKET,key\n' for exactly the listed keys that do not end with '/',
\* are not the manifest key and do not end, in any letter case, with
\* 'source.zip': one line per occurrence, in the listing's order; the uploaded
\* manifest is those lines.
C1_ManifestFiltering ==
    \A r \in Runs :
        /\ written[r] = [n \in 1..Len(EligibleKeys(r)) |->
                            INPUT_BUCKET \o <<",">> \o EligibleKeys(r)[n] \o <<"\n">>]
        /\ uploaded[r] # NoneSeq => uploaded[r] = Concat(written[r])

\* A finished listing of two pages, one of them without Contents, holding a
\* source.zip key in capitals and an eligible key twice
C1_Witness ==
    \E r \in Runs :
        /\ pc[r] = "returned"
        /\ listing[r].pages = 2
        /\ listing[r].bare
        /\ ListedKeys(r) = <<K_BAK, K_ZIP, K_BAK>>
        /\ Len(written[r]) = 2

\* The number of newline characters of a text
CountLines(text) == Cardinality({n \in 1..Len(text) : text[n] = "\n"})

\* C7: a run whose listing has no eligible key uploads an empty manifest,
\* returns object_count 0 and never calls create_job; every create_job call
\* comes from a run with object_count > 0.
C7_ZeroObjectShortCircuit ==
    /\ \A r \in Runs :
          (Finished(r) /\ EligibleKeys(r) = <<>>) =>
              /\ uploaded[r] = <<>>
              /\ object_count[r] = 0
              /\ pc[r] \in {"returned", "skipped"}
              /\ \A n \in 1..Len(jobCalls) : jobCalls[n].run # r
    /\ \A n \in 1..Len(jobCalls) : object_count[jobCalls[n].run] > 0

\* A run that listed only ineligible keys and skipped the submission
C7_Witness ==
    \E r \in Runs :
        /\ pc[r] = "skipped"
        /\ ListedKeys(r) = <<K_DIR, MANIFEST_KEY, K_ZIP>>
        /\ manifestObj = [content |-> <<>>, writer |-> r]

CallsOf(r) == {n \in 1..Len(jobCalls) : jobCalls[n].run = r}

C9_FingerprintMatchesStore ==
    \A n \in 1..Len(jobCalls) :
        /\ <<"\"">> \o jobCalls[n].request.Manifest.Location.ETag \o <<"\"">>
              = jobCalls[n].storeETag
        /\ jobCalls[n].storeWriter = jobCalls[n].run
        /\ jobCalls[n].storeContent = uploaded[jobCalls[n].run]

\* ------------------------------------------------------------------------
\* Properties of the handler
\* ------------------------------------------------------------------------
TaskAt(i, n) == event[i].tasks[n]

\* The calls of a history made for task n of invocation i
CallsFor(calls, i, n) ==
    {k \in 1..Len(calls) : calls[k].call.inv = i /\ calls[k].call.task = n}

\* The MIME type of the object stored under key: the stored ContentType, or
\* the guess from the key when that is absent or an octet-stream type
ResolvedType(key) ==
    IF objects[key].ContentType \in {NoneSeq, BINARY_OCTET, APPLICATION_OCTET}
    THEN GuessType(key)
    ELSE objects[key].ContentType

HasPrefix(s, n, prefix) == Len(s) >= n /\ SubSeq(s, 1, n) = prefix

\* The classification table: (mediaType, encoding) of a MIME type
TablePair(ct) ==
    IF ct = NoneSeq THEN NoneSeq
    ELSE IF HasPrefix(ct, 6, <<"i","m","a","g","e","/">>) THEN <<"image", "base64">>
    ELSE IF HasPrefix(ct, 6, <<"a","u","d","i","o","/">>) THEN <<"audio", "base64">>
    ELSE IF HasPrefix(ct, 6, <<"v","i","d","e","o","/">>) THEN <<"video", "base64">>
    ELSE IF ct = <<"a","p","p","l","i","c","a","t","i","o","n","/","p","d","f">>
         THEN <<"document", "base64">>
    ELSE IF HasPrefix(ct, 5, <<"t","e","x","t","/">>) THEN <<"text", "utf8">>
    ELSE NoneSeq

FivePairs == { <<"image", "base64">>, <<"audio", "base64">>, <<"video", "base64">>,
               <<"document", "base64">>, <<"text", "utf8">> }

\* C2: every invoke_model request carries the (mediaType, encoding) pair the
\* table gives for the resolved MIME type of the task's object, one of the five
\* pairs; a downloaded task whose resolved type is missing or outside the table
\* ends PermanentFailure with no invoke_model call; the content_type the
\* handler goes on with is the resolved type.
C2_MediaClassification ==
    /\ \A k \in 1..Len(modelCalls) :
          LET c == modelCalls[k].call
              pair == <<c.body.input.mediaType, c.body.input.encoding>>
          IN /\ pair \in FivePairs
             /\ pair = TablePair(ResolvedType(TaskAt(c.inv, c.task).s3Key))
    /\ \A i \in Invs :
          /\ hpc[i] \in {"embed", "store"} => local[i].content_type = ResolvedType(local[i].s3_uri)
          /\ \A n \in 1..Len(results[i]) :
                ( /\ \E k \in CallsFor(getCalls, i, n) : getCalls[k].answer = "ok"
                  /\ TablePair(ResolvedType(TaskAt(i, n).s3Key)) = NoneSeq )
                => /\ results[i][n].resultCode = "PermanentFailure"
                   /\ CallsFor(modelCalls, i, n) = {}

\* An object stored as application/octet-stream under notes.txt went to the
\* model as text/utf8
C2_Witness ==
    /\ H_TXT \in DOMAIN objects
    /\ objects[H_TXT].ContentType = APPLICATION_OCTET
    /\ \E k \in 1..Len(modelCalls) :
          /\ modelCalls[k].call.body.input.mediaType = "text"
          /\ modelCalls[k].call.body.input.encoding = "utf8"
          /\ modelCalls[k].call.body.input.data = <<"H", "i">>

\* C5: a task that ended Succeeded made one put_vectors call, to the configured
\* vector bucket and index, with one vector: its key the task's s3Key, its
\* float32 the embedding the model answered, its metadata the bucket name of
\* the task's s3BucketArn and the resolved MIME type.
C5_StoredVector ==
    \A i \in Invs : \A n \in 1..Len(results[i]) :
        results[i][n].resultCode = "Succeeded" =>
            /\ Cardinality(CallsFor(putCalls, i, n)) = 1
            /\ \A k \in CallsFor(putCalls, i, n) :
                  LET c == putCalls[k].call
                  IN /\ c.vectorBucketName = VECTOR_BUCKET
                     /\ c.indexName = VECTOR_INDEX
                     /\ Len(c.vectors) = 1
                     /\ c.vectors[1].key = TaskAt(i, n).s3Key
                     /\ \E m \in CallsFor(modelCalls, i, n) :
                           /\ modelCalls[m].answer = "ok"
                           /\ c.vectors[1].data.float32
                                 = modelCalls[m].body.embeddings[1].embedding
                     /\ DOMAIN c.vectors[1].metadata = {"source_bucket", "mime_type"}
                     /\ TaskAt(i, n).s3BucketArn
                           = <<"a","r","n",":","a","w","s",":","s","3",":",":",":">>
                             \o c.vectors[1].metadata.source_bucket
                     /\ c.vectors[1].metadata.mime_type = ResolvedType(TaskAt(i, n).s3Key)

\* photo.JPG, stored as binary/octet-stream, succeeded as image/jpeg
C5_Witness ==
    \E i \in Invs :
        /\ hpc[i] = "returned"
        /\ Len(results[i]) = 1
        /\ results[i][1].resultCode = "Succeeded"
        /\ TaskAt(i, 1).s3Key = H_JPG
        /\ objects[H_JPG].ContentType = BINARY_OCTET
        /\ vectorIndex[<<VECTOR_BUCKET, VECTOR_INDEX, H_JPG>>].metadata.mime_type
              = <<"i","m","a","g","e","/","j","p","e","g">>

\* A service call of invocation i was answered with an error
OwnError(i) ==
    \/ \E k \in 1..Len(getCalls) : getCalls[k].call.inv = i /\ getCalls[k].answer = "error"
    \/ \E k \in 1..Len(modelCalls) : modelCalls[k].call.inv = i /\ modelCalls[k].answer = "error"
    \/ \E k \in 1..Len(putCalls) : putCalls[k].call.inv = i /\ putCalls[k].answer = "error"

Redelivery == Cardinality(Invs) = 2 /\ \A i, j \in Invs : event[i] = event[j]

\* C6: of two invocations with the same task, each returns Succeeded unless one
\* of its own service calls failed; when both succeeded there are two
\* put_vectors calls with the same vector key, and the index holds one record
\* for that key, as after a single delivery.
C6_IdempotentRedelivery ==
    Redelivery =>
        /\ \A i \in Invs :
              /\ hpc[i] # "raised"
              /\ hpc[i] = "returned" =>
                    /\ Len(returned[i].results) = 1
                    /\ returned[i].results[1].resultCode = "Succeeded" <=> ~OwnError(i)
        /\ \A k \in 1..Len(putCalls) : putCalls[k].answer = "ok" =>
              DOMAIN vectorIndex = {<<VECTOR_BUCKET, VECTOR_INDEX, putCalls[k].call.vectors[1].key>>}
        /\ (\A i \in Invs : hpc[i] = "returned" /\ ~OwnError(i)) =>
              /\ Len(putCalls) = 2
              /\ putCalls[1].call.vectors[1].key = putCalls[2].call.vectors[1].key
              /\ putCalls[1].call.inv # putCalls[2].call.inv

\* Both deliveries succeeded with their steps interleaved: the invocation that
\* downloaded first stored last
C6_Witness ==
    /\ Redelivery
    /\ \A i \in Invs : hpc[i] = "returned" /\ results[i][1].resultCode = "Succeeded"
    /\ Len(putCalls) = 2
    /\ getCalls[1].call.inv = putCalls[2].call.inv
    /\ Cardinality(DOMAIN vectorIndex) = 1

\* C3: when the model invocation of a task raised, the invocation returns one
\* result per task in the tasks' order, that task's result is PermanentFailure
\* with the exception's message, and every other task is Succeeded exactly when
\* its own put_vectors call was answered.
C3_PerTaskIsolation ==
    \A i \in Invs :
        ( /\ hpc[i] \in {"returned", "raised"}
          /\ \E k \in 1..Len(modelCalls) :
                modelCalls[k].call.inv = i /\ modelCalls[k].answer = "error" )
        => /\ returned[i] # NoneRec
           /\ Len(returned[i].results) = Len(event[i].tasks)
           /\ \A n \in 1..Len(event[i].tasks) :
                 /\ returned[i].results[n].taskId = TaskAt(i, n).taskId
                 /\ \A k \in CallsFor(modelCalls, i, n) :
                       modelCalls[k].answer = "error" =>
                          /\ returned[i].results[n].resultCode = "PermanentFailure"
                          /\ returned[i].results[n].resultString = modelCalls[k].body
                 /\ returned[i].results[n].resultCode = "Succeeded" <=>
                       \E k \in CallsFor(putCalls, i, n) : putCalls[k].answer = "ok"

\* C4: lambda_handler never raises, and what it returns carries schema version
\* '1.0', treatMissingKeysAs 'Succeeded' and one result per task of the event.
C4_AlwaysStructuredResponse ==
    \A i \in Invs :
        /\ hpc[i] # "raised"
        /\ hpc[i] = "returned" =>
              /\ returned[i].invocationSchemaVersion = "1.0"
              /\ returned[i].treatMissingKeysAs = "Succeeded"
              /\ Len(returned[i].results) = Len(event[i].tasks)

\* ------------------------------------------------------------------------
\* Embedding dimension
\* ------------------------------------------------------------------------
\* The answered calls of invoke_model whose embedding is not of the configured
\* dimension
WrongDimensionCalls ==
    {c \in 1..Len(modelCalls) :
        /\ modelCalls[c].answer = "ok"
        /\ Len(modelCalls[c].body.embeddings[1].embedding) # EMBEDDING_DIMENSION}

\* C11: a task whose model response carries an embedding whose length differs
\* from EMBEDDING_DIMENSION is reported as a failure, never as Succeeded, and
\* no vector of another length than EMBEDDING_DIMENSION is written for it.
C11_DimensionMismatchFails ==
    \A c \in WrongDimensionCalls :
        LET i == modelCalls[c].call.inv
            n == modelCalls[c].call.task
        IN /\ Len(results[i]) >= n => results[i][n].resultCode = "PermanentFailure"
           /\ \A p \in CallsFor(putCalls, i, n) : putCalls[p].answer # "ok"

\* ------------------------------------------------------------------------
\* Configuration
\* ------------------------------------------------------------------------
\* A name the running process requires is unset
MissingValue ==
    \/ Runs # {} /\ ~(LauncherNames \subseteq DOMAIN environ)
    \/ Invs # {} /\ ~(HandlerNames \subseteq DOMAIN environ)

\* C12: when a required configuration value is missing, the process fails
\* while it loads: it makes no external call and processes no task, so the
\* missing value never shows as a per-task failure or a mid-run error.
C12_MissingConfigFailsFast ==
    MissingValue =>
        /\ \A r \in Runs : pc[r] \in {"import", "config_error"}
        /\ \A i \in Invs : hpc[i] \in {"import", "config_error"}
        /\ \A i \in Invs : results[i] = <<>>
        /\ getCalls = <<>> /\ modelCalls = <<>> /\ putCalls = <<>>
        /\ jobCalls = <<>> /\ manifestObj = NoneRec

\* ------------------------------------------------------------------------
\* The value create_manifest_file returns
\* ------------------------------------------------------------------------
\* C13: the value create_manifest_file returns is the number of eligible
\* objects written to the manifest (2 for a listing with two eligible keys
\* among folder markers and the manifest key).
C13_ReturnsEligibleCount ==
    \A r \in Runs :
        pc[r] \in {"returned", "done", "skipped"} =>
            PyEq(ReturnValue(r), PyInt(Len(EligibleKeys(r))))

\* ------------------------------------------------------------------------
\* The chain of one task attempt
\* ------------------------------------------------------------------------
\* The calls of a history made for task n of invocation i that were answered
OkCalls(calls, i, n) == {k \in CallsFor(calls, i, n) : calls[k].answer = "ok"}

\* Task n of invocation i has its result
HasResult(i, n) == Len(results[i]) >= n

\* C14: within one attempt of a task, get_object, invoke_model and
\* put_vectors are called in that order, each at most once; a call is made
\* only if every earlier call of the task was answered; after the first
\* failing step no later call is made and the result is PermanentFailure; the
\* result is Succeeded exactly if put_vectors returned without error.
C14_CallChain ==
    \A i \in Invs : \A n \in 1..Len(event[i].tasks) :
        /\ Cardinality(CallsFor(getCalls, i, n)) <= 1
        /\ Cardinality(CallsFor(modelCalls, i, n)) <= 1
        /\ Cardinality(CallsFor(putCalls, i, n)) <= 1
        /\ CallsFor(modelCalls, i, n) # {} => OkCalls(getCalls, i, n) # {}
        /\ CallsFor(putCalls, i, n) # {} => OkCalls(modelCalls, i, n) # {}
        /\ OkCalls(putCalls, i, n) # {} => HasResult(i, n)
        /\ HasResult(i, n) =>
              /\ results[i][n].resultCode \in {"Succeeded", "PermanentFailure"}
              /\ results[i][n].resultCode = "Succeeded" <=> OkCalls(putCalls, i, n) # {}
              /\ \/ CallsFor(getCalls, i, n) # OkCalls(getCalls, i, n)
                 \/ CallsFor(modelCalls, i, n) # OkCalls(modelCalls, i, n)
                 \/ CallsFor(putCalls, i, n) # OkCalls(putCalls, i, n)
                 => results[i][n].resultCode = "PermanentFailure"

\* A batch whose first task went through the whole chain and whose second
\* task stopped at a failing invoke_model
C14_Witness ==
    \E i \in Invs :
        /\ Len(event[i].tasks) = 2
        /\ HasResult(i, 2)
        /\ results[i][1].resultCode = "Succeeded"
        /\ OkCalls(getCalls, i, 1) # {} /\ OkCalls(modelCalls, i, 1) # {}
        /\ OkCalls(putCalls, i, 1) # {}
        /\ results[i][2].resultCode = "PermanentFailure"
        /\ OkCalls(getCalls, i, 2) # {}
        /\ CallsFor(modelCalls, i, 2) # {} /\ OkCalls(modelCalls, i, 2) = {}
        /\ CallsFor(putCalls, i, 2) = {}
====
